---- MODULE Spec2Model ----
(***************************************************************************)
(* A model of hqsbase.qonfig.Qonfig: configuration nodes held in a heap of *)
(* Python objects, built from class descriptors, written with              *)
(* __setitem__ (which propagates downward), validated, copied, serialized  *)
(* to a dict and rebuilt from it.                                          *)
(*                                                                         *)
(* Python objects have identity, so the nodes live in a heap (id -> node)  *)
(* and a value that is a Qonfig is a reference into it.  Lists are never   *)
(* mutated in place by the code, so a list is a sequence of values.        *)
(***************************************************************************)
EXTENDS Integers, Sequences, FiniteSets, TLC

VARIABLES heap,  \* id -> Qonfig object
          x,     \* the caller's first variable: a node id, or None
          y,     \* the caller's second variable: a node id, or None
          last,  \* the last call and what it returned or raised
          pre,   \* the heap before the last call
          ops    \* number of calls made

vars == <<heap, x, y, last, pre, ops>>

(*************************** bounds of the model ***************************)
\* Calls after construction.
MaxOps == 2
\* How deep the calls and loop iterations of one operation may nest: a call
\* that recurses without end exceeds it and raises RecursionError.
MaxDepth == 27

(******************************** values ***********************************)
None == 0
Empty == [t |-> "Empty"]
Num(n) == [t |-> "num", n |-> n]
Cplx(re, im) == [t |-> "cplx", re |-> re, im |-> im]
Str(s) == [t |-> "str", s |-> s]
Bool(b) == [t |-> "bool", b |-> b]
Ref(i) == [t |-> "node", id |-> i]
List(items) == [t |-> "list", items |-> items]
Dict(d) == [t |-> "dict", d |-> d]
\* Python's None, as the value of an attribute
PyNone == [t |-> "None"]

\* repr(empty)
EmptyRepr == Str("<empty 'Empty'>")

IsQonfig(v) == v.t = "node"
IsEmpty(v) == v.t = "Empty"

\* hasattr(v, '__iter__') and any([isinstance(subval, Qonfig) for subval in v])
ContainsQonfig(v) ==
    /\ v.t = "list"
    /\ \E i \in DOMAIN v.items : IsQonfig(v.items[i])

\* [sv for sv in v if isinstance(sv, Qonfig)], as ids
QonfigItems(v) == SelectSeq(v.items, IsQonfig)

\* isinstance(v, dict) and 'qonfig_name' in v.keys()
IsQonfigDict(v) == v.t = "dict" /\ "qonfig_name" \in DOMAIN v.d

\* isinstance(v, dict) and v.get('is_calculator_complex', False)
IsComplexDict(v) ==
    /\ v.t = "dict"
    /\ "is_calculator_complex" \in DOMAIN v.d
    /\ v.d["is_calculator_complex"] = Bool(TRUE)

NoKeys == <<>>

(**************************** the descriptors ******************************)
\* The component classes of the universe.  Simple is simple_class_aware of
\* tests/qonfig/test_qonfig.py and Aware is class_aware without its key3;
\* NoProp has _qonfig_never_receives_values like
\* no_propagation_class_aware, and a nested node and a requirement besides;
\* SubSimple is a subclass of Simple; Top nests Aware and NoProp, holds a
\* list of nodes, and declares a key with the reserved name 'name'; Listed
\* declares key1 and, as the default of lst, a list that holds a Qonfig.
Classes == {"Simple", "SubSimple", "NoProp", "Aware", "Top", "Listed"}

\* A class without _qonfig_defaults_dict.
Unrelated == "unrelated_class"

\* '{}.{}'.format(class_module, class_name)
QonfigName(c) == "test_qonfig." \o c

\* The Qonfig(simple_class_aware) object that class_aware holds as the
\* default of super_key1: created when the class body runs.
DefaultSimple == 1
\* The Qonfig(simple_class_aware) object in the list that Listed holds as
\* the default of lst.
DefaultElement == 2

\* _qonfig_defaults_dict.keys(), in declaration order
ClassKeys(c) ==
    CASE c \in {"Simple", "SubSimple"} -> <<"key1", "key2">>
      [] c = "NoProp" -> <<"key2", "super_key1">>
      [] c = "Aware" -> <<"super_key1", "key2">>
      [] c = "Top" -> <<"name", "key1", "mid", "side", "lst">>
      [] c = "Listed" -> <<"key1", "lst">>

KeySet(c) == {ClassKeys(c)[i] : i \in DOMAIN ClassKeys(c)}

\* {'qonfig_name': ...}: a default given as the dict of a nested Qonfig
NestedDefault(c) == Dict("qonfig_name" :> Str(QonfigName(c)))

\* _qonfig_defaults_dict[k]['default']
ClassDefault(c, k) ==
    CASE c \in {"Simple", "SubSimple"} /\ k = "key1" -> Num(1)
      [] c \in {"Simple", "SubSimple"} /\ k = "key2" -> Cplx(0, 1)
      [] c = "NoProp" /\ k = "key2" -> Num(2)
      [] c = "NoProp" /\ k = "super_key1" -> NestedDefault("Simple")
      [] c = "Aware" /\ k = "super_key1" -> Ref(DefaultSimple)
      [] c = "Aware" /\ k = "key2" -> Empty
      [] c = "Top" /\ k = "name" -> Num(1)
      [] c = "Top" /\ k = "key1" -> Num(3)
      [] c = "Top" /\ k = "mid" -> NestedDefault("Aware")
      [] c = "Top" /\ k = "side" -> NestedDefault("NoProp")
      [] c = "Top" /\ k = "lst" ->
            List(<<NestedDefault("SubSimple"), NestedDefault("NoProp")>>)
      [] c = "Listed" /\ k = "key1" -> Num(3)
      [] c = "Listed" /\ k = "lst" -> List(<<Ref(DefaultElement)>>)

\* _qonfig_defaults_dict[k]['doc']
ClassDoc(c, k) == "documentation for " \o k

\* _qonfig_never_receives_values
NeverReceivesValues(c) == c = "NoProp"

\* _requirements.keys(), in declaration order
RequirementKeys(c) ==
    CASE c = "Aware" -> <<"super_key1">>
      [] c = "NoProp" -> <<"key2">>
      [] OTHER -> <<>>

\* _requirements[k]['doc']
RequirementDoc(c, k) ==
    IF c = "Aware" THEN "It is required that super_key1['key1'] is 3 "
    ELSE "It is required that " \o k \o " is 2"

\* issubclass(c, specific_class)
IsSubclass(c, specific_class) ==
    \/ c = specific_class
    \/ c = "SubSimple" /\ specific_class = "Simple"

\* importlib.import_module(spl[0]); getattr(module, spl[1], None)
ResolveClass(name) ==
    IF \E c \in Classes \cup {Unrelated} : QonfigName(c) = name
    THEN CHOOSE c \in Classes \cup {Unrelated} : QonfigName(c) = name
    ELSE "None"

(****************************** the heap ***********************************)
\* The state of the interpreter while one call runs: the heap, the
\* exception that is propagating ("none": none), the value returned.
Machine(h) == [h |-> h, err |-> "none", r |-> Empty]

Ok(m) == m.err = "none"

Raise(m, e) == [m EXCEPT !.err = e]

Return(m, v) == [m EXCEPT !.r = v]

\* The heap is a sequence of objects; a freed object leaves a free slot.
Free == [cls |-> "free"]

IsFree(h, i) == h[i].cls = "free"

\* The id of the next object created: the first free slot, or a new one.
NewId(h) ==
    IF \E i \in DOMAIN h : IsFree(h, i)
    THEN CHOOSE i \in DOMAIN h : IsFree(h, i) /\ \A j \in 1..(i - 1) : ~IsFree(h, j)
    ELSE Len(h) + 1

\* The heap with the new object obj at id n.
Place(h, n, obj) == IF n > Len(h) THEN Append(h, obj) ELSE [h EXCEPT ![n] = obj]

\* Qonfig.keys(): self._defaults.keys()
keys(h, n) == ClassKeys(h[n].cls)

HasKey(h, n, key) == key \in DOMAIN h[n].defaults

\* the root property: the node itself when it has no parent, else the root
\* of its parent, d being the calls that may still nest
RECURSIVE root(_, _, _)
root(h, n, d) ==
    IF d < 0 THEN [err |-> "RecursionError", r |-> None]
    ELSE IF h[n].parent = None THEN [err |-> "none", r |-> n]
    ELSE root(h, h[n].parent, d - 1)

\* the receives_values property
receives_values(h, n) == h[n].rv /\ ~NeverReceivesValues(h[n].cls)

\* Qonfig.__getitem__ for a declared or reserved key
getitem(h, n, key) ==
    IF key \in {"name", "qonfig_name"}
    THEN Str(QonfigName(h[n].cls))
    ELSE h[n].values[key]

\* Qonfig.get for a declared key
get(h, n, key) == h[n].values[key]

\* Qonfig.__getitem__ raises KeyError
GetItemRaises(h, n, key) ==
    key \notin {"name", "qonfig_name"} /\ key \notin DOMAIN h[n].values

\* Qonfig.get, called without a default, raises KeyError
GetRaises(h, n, key) == key \notin DOMAIN h[n].values

(************************* construction and writes *************************)
\* One nested call: the function named f applied to the arguments a, the
\* first being the interpreter's state and the last the calls that may
\* still nest.  A call that nests deeper raises RecursionError.
RECURSIVE Invoke(_, _)

\* return v, unless an exception is propagating
Returning(m, v) == IF Ok(m) THEN Return(m, v) ELSE m

\* copy.copy(value): Qonfig.__copy__ for a Qonfig; a list is copied with its
\* elements shared; a scalar is itself.
CopyValue(m, value, d) ==
    IF IsQonfig(value) THEN Invoke("CopyQonfig", <<m, value.id, d - 1>>) ELSE Return(m, value)

\* from_dict rebuilds a complex number from the dict that encodes it
FromComplexDict(e, complex) ==
    IF complex /\ IsComplexDict(e) THEN Cplx(e.d["real"].n, e.d["imag"].n) ELSE e

\* tmp_list.append(...) after Qonfig.from_dict(items[i]) ended as mf: the
\* raw dict is kept when the class is not qonfigurable
FromDictItemsNext(m, mf, items, i, acc, complex, d) ==
    IF mf.err = "NotQonfigurableError"
    THEN Invoke("FromDictItems", <<m, items, i + 1, Append(acc, items[i]), complex, d - 1>>)
    ELSE Invoke("FromDictItems", <<mf, items, i + 1, Append(acc, mf.r), complex, d - 1>>)

\* The list branch of _populate_defaults_from_dict_like and of from_dict
\* (complex = TRUE): each dict that names a Qonfig is built.
FromDictItems(m, items, i, acc, complex, d) ==
    IF ~Ok(m) THEN m
    ELSE IF i > Len(items) THEN Return(m, List(acc))
    ELSE IF IsQonfigDict(items[i])
    THEN FromDictItemsNext(m, Invoke("from_dict", <<m, items[i], d - 1>>),
                           items, i, acc, complex, d)
    ELSE Invoke("FromDictItems",
                <<m, items, i + 1, Append(acc, FromComplexDict(items[i], complex)),
                  complex, d - 1>>)

\* except NotQonfigurableError: self._defaults[key] = dict_like[key]['default']
DefaultFallback(m, mf, dv) ==
    IF mf.err = "NotQonfigurableError" THEN Return(m, dv) ELSE mf

\* the default of one key in _populate_defaults_from_dict_like: a nested
\* Qonfig built from its dict, a list of them, or a copy of the default
BuildDefault(m, dv, d) ==
    IF IsQonfigDict(dv)
    THEN DefaultFallback(m, Invoke("from_dict", <<m, dv, d - 1>>), dv)
    ELSE IF dv.t = "list" /\ \E j \in DOMAIN dv.items : IsQonfigDict(dv.items[j])
    THEN Invoke("FromDictItems", <<m, dv.items, 1, <<>>, FALSE, d - 1>>)
    ELSE CopyValue(m, dv, d)

\* self._defaults[key] = the value just built
SetDefault(m, n, key) ==
    IF Ok(m) THEN [m EXCEPT !.h[n].defaults = (key :> m.r) @@ @] ELSE m

\* Qonfig._populate_defaults_from_dict_like, from key number i on
PopulateDefaults(m, n, i, d) ==
    IF ~Ok(m) \/ i > Len(keys(m.h, n)) THEN m
    ELSE LET key == keys(m.h, n)[i]
         IN Invoke("PopulateDefaults",
                   <<SetDefault(BuildDefault(m, ClassDefault(m.h[n].cls, key), d), n, key),
                     n, i + 1, d - 1>>)

\* the loop of Qonfig.propagate_all, from key number i on
PropagateAllFrom(m, n, i, d) ==
    IF ~Ok(m) \/ i > Len(keys(m.h, n)) THEN m
    ELSE LET k == keys(m.h, n)[i]
         IN Invoke("PropagateAllFrom",
                   <<Invoke("propagate_value", <<m, n, k, m.h[n].values[k], d - 1>>),
                     n, i + 1, d - 1>>)

\* A propagate_all that leaves the nested defaults as they are.
KeepDefaults(m, n, d) == m

\* Qonfig.propagate_all
propagate_all(m, n, d) ==
    IF ~Ok(m) \/ NeverReceivesValues(m.h[n].cls) THEN m
    ELSE Invoke("PropagateAllFrom", <<m, n, 1, d - 1>>)

\* Qonfig._populate_values_from_defaults: the values are the default
\* objects themselves, not copies of them
PopulateValues(m, n, d) ==
    IF ~Ok(m) THEN m
    ELSE IF ~NeverReceivesValues(m.h[n].cls)
    THEN Invoke("propagate_all", <<[m EXCEPT !.h[n].values = m.h[n].defaults], n, d - 1>>)
    ELSE [m EXCEPT !.h[n].values = m.h[n].defaults]

\* the object Qonfig.__init__ starts from
NewObject(cls, parent, rv) ==
    [cls |-> cls, values |-> NoKeys, defaults |-> NoKeys, parent |-> parent, rv |-> rv]

\* Qonfig.__init__ with _config_aware_class_init: Qonfig(cls, parent=parent,
\* receives_values=rv)
Build(m, cls, parent, rv, d) ==
    IF ~Ok(m) THEN m
    ELSE IF cls \notin Classes THEN Raise(m, "NotQonfigurableError")
    ELSE LET n == NewId(m.h)
         IN Returning(
                Invoke("PopulateValues",
                       <<Invoke("PopulateDefaults",
                                <<[m EXCEPT !.h = Place(m.h, n, NewObject(cls, parent, rv))],
                                  n, 1, d - 1>>),
                         n, d - 1>>),
                Ref(n))

\* if subval.receives_values and key in subval.keys(): subval[key] = value
SetReceptive(m, sv, key, value, d) ==
    IF receives_values(m.h, sv) /\ HasKey(m.h, sv, key)
    THEN Invoke("setitem", <<m, sv, key, value, d - 1>>)
    ELSE m

\* the loop over the list elements in Qonfig.propagate_value
PropagateValueItems(m, items, key, value, j, d) ==
    IF ~Ok(m) \/ j > Len(items) THEN m
    ELSE LET sv == items[j].id
         IN Invoke("PropagateValueItems",
                   <<Invoke("propagate_value",
                            <<SetReceptive(m, sv, key, value, d), sv, key, value, d - 1>>),
                     items, key, value, j + 1, d - 1>>)

\* A nested node that is passed by without being written.
SkipDeclared(m, c, key, value, d) == m

\* if key in self._values[k].keys(): self._values[k][key] = value
SetDeclared(m, c, key, value, d) ==
    IF HasKey(m.h, c, key) THEN Invoke("setitem", <<m, c, key, value, d - 1>>) ELSE m

\* the body of the loop in Qonfig.propagate_value, for the value v of one key
PropagateValueInto(m, v, key, value, d) ==
    IF IsQonfig(v) /\ receives_values(m.h, v.id)
    THEN Invoke("propagate_value",
                <<SetDeclared(m, v.id, key, value, d), v.id, key, value, d - 1>>)
    ELSE IF ContainsQonfig(v)
    THEN Invoke("PropagateValueItems", <<m, QonfigItems(v), key, value, 1, d - 1>>)
    ELSE m

\* the loop over self.keys() in Qonfig.propagate_value, from key number i on
PropagateValueFrom(m, n, key, value, i, d) ==
    IF ~Ok(m) \/ i > Len(keys(m.h, n)) THEN m
    ELSE Invoke("PropagateValueFrom",
                <<PropagateValueInto(m, m.h[n].values[keys(m.h, n)[i]], key, value, d),
                  n, key, value, i + 1, d - 1>>)

\* A propagate_value that reaches no node.
NoPropagation(m, n, key, value, d) == m

\* Qonfig.propagate_value
propagate_value(m, n, key, value, d) ==
    IF ~Ok(m) THEN m
    ELSE Invoke("PropagateValueFrom", <<m, n, key, value, 1, d - 1>>)

\* the parent setter applied to every Qonfig of a list, from element j on
RECURSIVE RebindFrom(_, _, _, _)
RebindFrom(h, items, n, j) ==
    IF j > Len(items) THEN h
    ELSE RebindFrom(IF IsQonfig(items[j]) THEN [h EXCEPT ![items[j].id].parent = n] ELSE h,
                    items, n, j + 1)

\* the parent setter applied to every Qonfig of a list
RebindItems(h, v, n) == RebindFrom(h, v.items, n, 1)

\* the parent setters of Qonfig.__setitem__, stored being the copy now held
Rebind(h, n, value, stored) ==
    IF IsQonfig(value) THEN [h EXCEPT ![stored.id].parent = n]
    ELSE IF ContainsQonfig(stored) THEN RebindItems(h, stored, n)
    ELSE h

\* self._values[key] = copy(value), the copy being mc.r, and the parent
\* setters
Store(mc, n, key, value) ==
    IF ~Ok(mc) THEN mc
    ELSE [mc EXCEPT !.h = Rebind([mc.h EXCEPT ![n].values[key] = mc.r], n, value, mc.r)]

\* self.propagate_value(key, copy(value)), the copy being mp.r
PropagateCopy(mp, n, key, d) == Invoke("propagate_value", <<mp, n, key, mp.r, d - 1>>)

\* if self._receives_values: self.propagate_value(key, copy(value))
PropagateStored(ms, n, key, value, d) ==
    IF ~Ok(ms) THEN ms
    ELSE IF ms.h[n].rv THEN PropagateCopy(CopyValue(ms, value, d), n, key, d)
    ELSE Return(ms, Empty)

\* Node p holds node n under one of its keys and declares key.
HoldsUnder(h, p, n, key) ==
    /\ ~IsFree(h, p)
    /\ HasKey(h, p, key)
    /\ \E k \in DOMAIN h[p].values : h[p].values[k] = Ref(n)

\* The nodes that hold n under a key and declare key.
Holders(h, n, key) == {p \in DOMAIN h : HoldsUnder(h, p, n, key)}

\* A __setitem__ that writes the value into a node that holds n as well.
SetItemUpward(m, n, key, value, d) ==
    IF ~Ok(m) \/ ~HasKey(m.h, n, key) THEN m
    ELSE IF Holders(m.h, n, key) = {} THEN [m EXCEPT !.h[n].values = (key :> value) @@ @]
    ELSE [m EXCEPT !.h[n].values = (key :> value) @@ @,
                   !.h[CHOOSE p \in Holders(m.h, n, key) : TRUE].values = (key :> value) @@ @]

\* A __setitem__ that stores any key, as a dict does.
SetItemAdding(m, n, key, value, d) ==
    IF ~Ok(m) THEN m ELSE [m EXCEPT !.h[n].values = (key :> value) @@ @]

\* A __setitem__ that raises KeyError for a key the node does not declare.
SetItemStrict(m, n, key, value, d) ==
    IF ~Ok(m) THEN m
    ELSE IF ~HasKey(m.h, n, key) THEN Raise(m, "KeyError")
    ELSE PropagateStored(Store(CopyValue(m, value, d), n, key, value),
                         n, key, value, d)

\* Qonfig.__setitem__
setitem(m, n, key, value, d) ==
    IF ~Ok(m) THEN m
    ELSE IF ~HasKey(m.h, n, key) THEN Invoke("propagate_value", <<m, n, key, value, d - 1>>)
    ELSE PropagateStored(Store(CopyValue(m, value, d), n, key, value),
                         n, key, value, d)

\* tmp_list.append(copy(subval)), the copy being mc.r
CopyItemsNext(mc, items, i, acc, d) ==
    IF Ok(mc) THEN Invoke("CopyItems", <<mc, items, i + 1, Append(acc, mc.r), d - 1>>) ELSE mc

\* the list branch of Qonfig.__copy__
CopyItems(m, items, i, acc, d) ==
    IF ~Ok(m) THEN m
    ELSE IF i > Len(items) THEN Return(m, List(acc))
    ELSE CopyItemsNext(CopyValue(m, items[i], d), items, i, acc, d)

\* the copy of the value of one key in Qonfig.__copy__: a list of copies,
\* or copy(self[key])
CopyKey(m, src, key, d) ==
    IF ContainsQonfig(m.h[src].values[key])
    THEN Invoke("CopyItems", <<m, m.h[src].values[key].items, 1, <<>>, d - 1>>)
    ELSE CopyValue(m, getitem(m.h, src, key), d)

\* return_instance._values[key] = the copy just made
SetValue(mc, dst, key) ==
    IF Ok(mc) THEN [mc EXCEPT !.h[dst].values[key] = mc.r] ELSE mc

\* the loop over self.keys() in Qonfig.__copy__, from key number i on
CopyKeys(m, src, dst, i, d) ==
    IF ~Ok(m) \/ i > Len(keys(m.h, src)) THEN m
    ELSE LET key == keys(m.h, src)[i]
         IN Invoke("CopyKeys", <<SetValue(CopyKey(m, src, key, d), dst, key),
                                 src, dst, i + 1, d - 1>>)

\* Qonfig.__copy__ after return_instance = Qonfig(...), which is mb.r
CopyInto(mb, src, d) ==
    IF ~Ok(mb) THEN mb
    ELSE Returning(Invoke("CopyKeys", <<mb, src, mb.r.id, 1, d - 1>>), mb.r)

\* Qonfig.__copy__
CopyQonfig(m, src, d) ==
    IF ~Ok(m) THEN m
    ELSE CopyInto(Invoke("Build", <<m, m.h[src].cls, m.h[src].parent, TRUE, d - 1>>),
                  src, d)

\* return_config[key] = Qonfig.from_dict(v), which ended as mf; the raw dict
\* when the class is not qonfigurable
SetBuilt(m, mf, n, key, v, d) ==
    IF mf.err = "NotQonfigurableError"
    THEN Invoke("setitem", <<m, n, key, v, d - 1>>)
    ELSE Invoke("setitem", <<mf, n, key, mf.r, d - 1>>)

\* return_config[key] = tmp_list, the list being ml.r
SetList(ml, n, key, d) == Invoke("setitem", <<ml, n, key, ml.r, d - 1>>)

\* the body of the loop in Qonfig.from_dict, for the value v of one key
FromDictKey(m, n, key, v, d) ==
    IF IsQonfigDict(v)
    THEN SetBuilt(m, Invoke("from_dict", <<m, v, d - 1>>), n, key, v, d)
    ELSE IF IsComplexDict(v)
    THEN Invoke("setitem", <<m, n, key, Cplx(v.d["real"].n, v.d["imag"].n), d - 1>>)
    ELSE IF v.t = "list" /\ \E j \in DOMAIN v.items : IsQonfigDict(v.items[j])
    THEN SetList(Invoke("FromDictItems", <<m, v.items, 1, <<>>, TRUE, d - 1>>), n, key, d)
    ELSE IF v = EmptyRepr THEN Invoke("setitem", <<m, n, key, Empty, d - 1>>)
    ELSE Invoke("setitem", <<m, n, key, v, d - 1>>)

\* the loop over the keys in Qonfig.from_dict, from key number i on
FromDictKeys(m, n, dct, i, d) ==
    IF ~Ok(m) \/ i > Len(keys(m.h, n)) THEN m
    ELSE LET key == keys(m.h, n)[i]
         IN Invoke("FromDictKeys",
                   <<IF key \in DOMAIN dct.d THEN FromDictKey(m, n, key, dct.d[key], d)
                                              ELSE m,
                     n, dct, i + 1, d - 1>>)

\* Qonfig.from_dict after return_config = Qonfig(class_type), which is mb.r
FromDictInto(mb, dct, d) ==
    IF ~Ok(mb) THEN mb
    ELSE Returning(Invoke("FromDictKeys", <<mb, mb.r.id, dct, 1, d - 1>>), mb.r)

\* Qonfig.from_dict
from_dict(m, dct, d) ==
    IF ~Ok(m) THEN m
    ELSE IF ResolveClass(dct.d["qonfig_name"].s) = "None" THEN Raise(m, "ImportError")
    ELSE FromDictInto(
             Invoke("Build", <<m, ResolveClass(dct.d["qonfig_name"].s), None, TRUE, d - 1>>),
             dct, d)

\* memodict[id(src)] = the copy just made, which is mc.r
Memoize(mc, src) ==
    IF Ok(mc) THEN [mc EXCEPT !.memo = (src :> mc.r.id) @@ @] ELSE mc

\* copy.deepcopy(value, memodict): the copy the memo holds, or
\* Qonfig.__deepcopy__ for a Qonfig not yet copied; a scalar is itself
DeepCopyValue(m, value, d) ==
    IF ~IsQonfig(value) THEN Return(m, value)
    ELSE IF value.id \in DOMAIN m.memo THEN Return(m, Ref(m.memo[value.id]))
    ELSE Memoize(Invoke("DeepCopyQonfig", <<m, value.id, d - 1>>), value.id)

\* tmp_list.append(deepcopy(subval, memodict)), the copy being mc.r
DeepCopyItemsNext(mc, items, i, acc, d) ==
    IF Ok(mc) THEN Invoke("DeepCopyItems", <<mc, items, i + 1, Append(acc, mc.r), d - 1>>)
    ELSE mc

\* the list branch of Qonfig.__deepcopy__
DeepCopyItems(m, items, i, acc, d) ==
    IF ~Ok(m) THEN m
    ELSE IF i > Len(items) THEN Return(m, List(acc))
    ELSE DeepCopyItemsNext(DeepCopyValue(m, items[i], d), items, i, acc, d)

\* the deep copy of the value of one key in Qonfig.__deepcopy__: a list of
\* deep copies, or deepcopy(self[key], memodict)
DeepCopyKey(m, src, key, d) ==
    IF ContainsQonfig(m.h[src].values[key])
    THEN Invoke("DeepCopyItems", <<m, m.h[src].values[key].items, 1, <<>>, d - 1>>)
    ELSE DeepCopyValue(m, getitem(m.h, src, key), d)

\* the loop over self.keys() in Qonfig.__deepcopy__, from key number i on
DeepCopyKeys(m, src, dst, i, d) ==
    IF ~Ok(m) \/ i > Len(keys(m.h, src)) THEN m
    ELSE LET key == keys(m.h, src)[i]
         IN Invoke("DeepCopyKeys", <<SetValue(DeepCopyKey(m, src, key, d), dst, key),
                                     src, dst, i + 1, d - 1>>)

\* Qonfig.__deepcopy__ after return_instance = Qonfig(...), which is mb.r
DeepCopyInto(mb, src, d) ==
    IF ~Ok(mb) THEN mb
    ELSE Returning(Invoke("DeepCopyKeys", <<mb, src, mb.r.id, 1, d - 1>>), mb.r)

\* Qonfig.__deepcopy__
DeepCopyQonfig(m, src, d) ==
    IF ~Ok(m) THEN m
    ELSE DeepCopyInto(Invoke("Build", <<m, m.h[src].cls, None, TRUE, d - 1>>), src, d)

\* copy.deepcopy(n): the call starts with an empty memo
deepcopy(m, n, d) ==
    DeepCopyValue([h |-> m.h, err |-> m.err, r |-> m.r, memo |-> NoKeys], Ref(n), d)

Invoke(f, a) ==
    IF a[Len(a)] < 0 THEN Raise(a[1], "RecursionError")
    ELSE
    CASE f = "Build" -> Build(a[1], a[2], a[3], a[4], a[5])
      [] f = "from_dict" -> from_dict(a[1], a[2], a[3])
      [] f = "FromDictItems" -> FromDictItems(a[1], a[2], a[3], a[4], a[5], a[6])
      [] f = "FromDictKeys" -> FromDictKeys(a[1], a[2], a[3], a[4], a[5])
      [] f = "PopulateDefaults" -> PopulateDefaults(a[1], a[2], a[3], a[4])
      [] f = "PopulateValues" -> PopulateValues(a[1], a[2], a[3])
      [] f = "propagate_all" -> propagate_all(a[1], a[2], a[3])
      [] f = "PropagateAllFrom" -> PropagateAllFrom(a[1], a[2], a[3], a[4])
      [] f = "propagate_value" -> propagate_value(a[1], a[2], a[3], a[4], a[5])
      [] f = "PropagateValueFrom" ->
            PropagateValueFrom(a[1], a[2], a[3], a[4], a[5], a[6])
      [] f = "PropagateValueItems" ->
            PropagateValueItems(a[1], a[2], a[3], a[4], a[5], a[6])
      [] f = "setitem" -> setitem(a[1], a[2], a[3], a[4], a[5])
      [] f = "CopyQonfig" -> CopyQonfig(a[1], a[2], a[3])
      [] f = "CopyKeys" -> CopyKeys(a[1], a[2], a[3], a[4], a[5])
      [] f = "CopyItems" -> CopyItems(a[1], a[2], a[3], a[4], a[5])
      [] f = "DeepCopyQonfig" -> DeepCopyQonfig(a[1], a[2], a[3])
      [] f = "DeepCopyKeys" -> DeepCopyKeys(a[1], a[2], a[3], a[4], a[5])
      [] f = "DeepCopyItems" -> DeepCopyItems(a[1], a[2], a[3], a[4], a[5])

(******************************* equality **********************************)
RECURSIVE PyEq(_, _, _, _)

IsNumber(v) == v.t \in {"num", "cplx"}

\* a number as a pair <<real, imag>>
AsComplex(v) == IF v.t = "num" THEN <<v.n, 0>> ELSE <<v.re, v.im>>

\* a == b in Python, for a value a of heap h1 and a value b of heap h2:
\* Qonfig.__eq__ (same class and equal _values), Empty.__eq__, and the
\* equality of lists, dicts, numbers and strings
PyEq(h1, a, h2, b) ==
    IF IsQonfig(a) /\ IsQonfig(b)
    THEN /\ h1[a.id].cls = h2[b.id].cls
         /\ DOMAIN h1[a.id].values = DOMAIN h2[b.id].values
         /\ \A k \in DOMAIN h1[a.id].values :
               PyEq(h1, h1[a.id].values[k], h2, h2[b.id].values[k])
    ELSE IF a.t = "list" /\ b.t = "list"
    THEN /\ Len(a.items) = Len(b.items)
         /\ \A i \in DOMAIN a.items : PyEq(h1, a.items[i], h2, b.items[i])
    ELSE IF a.t = "dict" /\ b.t = "dict"
    THEN /\ DOMAIN a.d = DOMAIN b.d
         /\ \A k \in DOMAIN a.d : PyEq(h1, a.d[k], h2, b.d[k])
    ELSE IF IsNumber(a) /\ IsNumber(b) THEN AsComplex(a) = AsComplex(b)
    ELSE a = b

(****************************** validation *********************************)
RECURSIVE is_complete(_, _)
RECURSIVE IsCompleteFrom(_, _, _)
RECURSIVE meets_requirements(_, _)
RECURSIVE ChildrenMeetFrom(_, _, _)
RECURSIVE RequirementsMetFrom(_, _, _)
RECURSIVE violated_requirements(_, _)
RECURSIVE ViolatedChildrenFrom(_, _, _, _)
RECURSIVE ViolatedItemsFrom(_, _, _, _, _)
RECURSIVE ViolatedOwnFrom(_, _, _, _)
RECURSIVE missing_values(_, _)
RECURSIVE MissingFrom(_, _, _, _)
RECURSIVE MissingItemsFrom(_, _, _, _, _)

\* _requirements[k]['requirement'](self).  class_aware requires
\* super_key1['key1'] == 3, no_propagation_class_aware key2 == 2.
Requirement(h, n, k) ==
    CASE h[n].cls = "Aware" /\ k = "super_key1" ->
            PyEq(h, getitem(h, getitem(h, n, "super_key1").id, "key1"), h, Num(3))
      [] h[n].cls = "NoProp" /\ k = "key2" -> PyEq(h, getitem(h, n, "key2"), h, Num(2))

\* the loop over self.keys() in Qonfig.is_complete, from key number i on
IsCompleteFrom(h, n, i) ==
    IF i > Len(keys(h, n)) THEN TRUE
    ELSE LET v == h[n].values[keys(h, n)[i]]
             complete ==
                 /\ ~IsEmpty(v)
                 /\ IF IsQonfig(v) THEN is_complete(h, v.id)
                    ELSE IF ContainsQonfig(v)
                    THEN \A j \in DOMAIN QonfigItems(v) :
                            is_complete(h, QonfigItems(v)[j].id)
                    ELSE TRUE
         IN IF complete THEN IsCompleteFrom(h, n, i + 1) ELSE FALSE

\* An is_complete that looks into never_receives_values nodes as well.
CompleteWithNever(h, n) == IsCompleteFrom(h, n, 1)

\* Qonfig.is_complete
is_complete(h, n) ==
    IF ~NeverReceivesValues(h[n].cls) THEN IsCompleteFrom(h, n, 1) ELSE TRUE

\* the first loop of Qonfig.meets_requirements, from key number i on
ChildrenMeetFrom(h, n, i) ==
    IF i > Len(keys(h, n)) THEN TRUE
    ELSE LET v == h[n].values[keys(h, n)[i]]
             requ ==
                 IF IsQonfig(v) THEN meets_requirements(h, v.id)
                 ELSE IF ContainsQonfig(v)
                 THEN \A j \in DOMAIN QonfigItems(v) :
                         meets_requirements(h, QonfigItems(v)[j].id)
                 ELSE TRUE
         IN IF requ THEN ChildrenMeetFrom(h, n, i + 1) ELSE FALSE

\* the second loop of Qonfig.meets_requirements, from requirement i on
RequirementsMetFrom(h, n, i) ==
    IF i > Len(RequirementKeys(h[n].cls)) THEN TRUE
    ELSE IF Requirement(h, n, RequirementKeys(h[n].cls)[i])
    THEN RequirementsMetFrom(h, n, i + 1)
    ELSE FALSE

\* A meets_requirements that skips the node's own requirements.
ChildrenOnly(h, n) ==
    IF ~NeverReceivesValues(h[n].cls) THEN ChildrenMeetFrom(h, n, 1) ELSE TRUE

\* Qonfig.meets_requirements
meets_requirements(h, n) ==
    IF ~NeverReceivesValues(h[n].cls)
    THEN ChildrenMeetFrom(h, n, 1) /\ RequirementsMetFrom(h, n, 1)
    ELSE TRUE

\* Qonfig.is_valid
is_valid(h, n) == is_complete(h, n) /\ meets_requirements(h, n)

\* '{}_{}'.format(key, cs), cs counted from 0
IndexedKey(key, cs) == key \o "_" \o ToString(cs)

\* the loop over the Qonfigs of a list in Qonfig.violated_requirements
ViolatedItemsFrom(h, key, items, j, acc) ==
    IF j > Len(items) THEN acc
    ELSE ViolatedItemsFrom(h, key, items, j + 1,
            IF ~meets_requirements(h, items[j].id)
            THEN (IndexedKey(key, j - 1) :> violated_requirements(h, items[j].id)) @@ acc
            ELSE acc)

\* the first loop of Qonfig.violated_requirements, from key number i on
ViolatedChildrenFrom(h, n, i, acc) ==
    IF i > Len(keys(h, n)) THEN acc
    ELSE LET key == keys(h, n)[i]
             v == h[n].values[key]
         IN ViolatedChildrenFrom(h, n, i + 1,
               IF IsQonfig(v) /\ ~meets_requirements(h, v.id)
               THEN (key :> violated_requirements(h, v.id)) @@ acc
               ELSE IF ~IsQonfig(v) /\ ContainsQonfig(v)
               THEN ViolatedItemsFrom(h, key, QonfigItems(v), 1, acc)
               ELSE acc)

\* the second loop of Qonfig.violated_requirements, from requirement i on
ViolatedOwnFrom(h, n, i, acc) ==
    IF i > Len(RequirementKeys(h[n].cls)) THEN acc
    ELSE LET key == RequirementKeys(h[n].cls)[i]
         IN ViolatedOwnFrom(h, n, i + 1,
               IF ~Requirement(h, n, key)
               THEN (key :> Str(RequirementDoc(h[n].cls, key))) @@ acc
               ELSE acc)

\* Qonfig.violated_requirements: a dict key -> doc or nested dict
violated_requirements(h, n) ==
    IF ~NeverReceivesValues(h[n].cls)
    THEN Dict(ViolatedOwnFrom(h, n, 1, ViolatedChildrenFrom(h, n, 1, NoKeys)))
    ELSE Dict(NoKeys)

\* the loop over every element of a list in Qonfig.missing_values
MissingItemsFrom(h, key, items, j, acc) ==
    IF j > Len(items) THEN acc
    ELSE MissingItemsFrom(h, key, items, j + 1,
            IF IsQonfig(items[j]) /\ ~is_complete(h, items[j].id)
            THEN (IndexedKey(key, j - 1) :> missing_values(h, items[j].id)) @@ acc
            ELSE (IndexedKey(key, j - 1) :> Str(IndexedKey(key, j - 1))) @@ acc)

\* the loop over self.keys() in Qonfig.missing_values, from key number i on
MissingFrom(h, n, i, acc) ==
    IF i > Len(keys(h, n)) THEN acc
    ELSE LET key == keys(h, n)[i]
             v == h[n].values[key]
             a1 == IF IsEmpty(v) THEN (key :> Str(key)) @@ acc ELSE acc
         IN MissingFrom(h, n, i + 1,
               IF IsQonfig(v) /\ ~is_complete(h, v.id)
               THEN (key :> missing_values(h, v.id)) @@ a1
               ELSE IF ~IsQonfig(v) /\ ContainsQonfig(v)
               THEN MissingItemsFrom(h, key, v.items, 1, a1)
               ELSE a1)

\* A missing_values that reports the Empty values of the node alone.
MissingOwn(h, n) ==
    Dict([k \in {q \in DOMAIN h[n].values : IsEmpty(h[n].values[q])} |-> Str(k)])

\* Qonfig.missing_values: a dict key -> key or nested dict
missing_values(h, n) ==
    IF ~NeverReceivesValues(h[n].cls)
    THEN Dict(MissingFrom(h, n, 1, NoKeys))
    ELSE Dict(NoKeys)

(**************************** targeted overwrite ***************************)
RECURSIVE propagate_overwrites(_, _, _, _, _, _)
RECURSIVE PropagateOverwritesFrom(_, _, _, _, _, _, _)
RECURSIVE PropagateOverwritesItems(_, _, _, _, _, _, _)

\* the loop over the list elements in Qonfig._propagate_overwrites
PropagateOverwritesItems(m, items, key, specific_class, value, j, d) ==
    IF ~Ok(m) \/ j > Len(items) THEN m
    ELSE LET sv == items[j].id
             ms == IF HasKey(m.h, sv, key) THEN setitem(m, sv, key, value, d) ELSE m
             m1 == IF receives_values(m.h, sv) /\ IsSubclass(m.h[sv].cls, specific_class)
                   THEN propagate_overwrites(ms, sv, key, specific_class, value, d)
                   ELSE m
         IN PropagateOverwritesItems(m1, items, key, specific_class, value, j + 1, d)

\* the loop over self.keys() in Qonfig._propagate_overwrites
PropagateOverwritesFrom(m, n, key, specific_class, value, i, d) ==
    IF ~Ok(m) \/ i > Len(keys(m.h, n)) THEN m
    ELSE LET v == m.h[n].values[keys(m.h, n)[i]]
             ms == IF HasKey(m.h, v.id, key) THEN setitem(m, v.id, key, value, d) ELSE m
             m1 == IF /\ IsQonfig(v)
                      /\ receives_values(m.h, v.id)
                      /\ IsSubclass(m.h[v.id].cls, specific_class)
                   THEN propagate_overwrites(ms, v.id, key, specific_class, value, d)
                   ELSE IF ~IsQonfig(v) /\ ContainsQonfig(v)
                   THEN PropagateOverwritesItems(m, QonfigItems(v), key,
                                                 specific_class, value, 1, d)
                   ELSE m
         IN PropagateOverwritesFrom(m1, n, key, specific_class, value, i + 1, d)

\* Qonfig._propagate_overwrites
propagate_overwrites(m, n, key, specific_class, value, d) ==
    IF ~Ok(m) THEN m
    ELSE IF d = 0 THEN Raise(m, "RecursionError")
    ELSE PropagateOverwritesFrom(m, n, key, specific_class, value, 1, d - 1)

(***************************** instantiation *******************************)
\* Qonfig.to_instance: what from_qonfig receives as config, or the error
to_instance(m, n, no_copy, d) ==
    IF is_valid(m.h, n)
    THEN IF no_copy \/ NeverReceivesValues(m.h[n].cls)
         THEN Return(m, Ref(n))
         ELSE CopyValue(m, Ref(n), d)
    ELSE Raise(m, "IncompleteQonfigError")

(***************************** serialization *******************************)
RECURSIVE enforce_yaml(_, _)
RECURSIVE to_dict(_, _, _)
RECURSIVE to_pd_series(_, _, _, _, _)
RECURSIVE SeriesFrom(_, _, _, _, _, _, _)
RECURSIVE SeriesItemsFrom(_, _, _, _, _, _, _, _)

\* enforce_yaml(value)
enforce_yaml(h, value) ==
    CASE IsQonfig(value) ->
            Dict([k \in DOMAIN h[value.id].defaults |->
                     enforce_yaml(h, getitem(h, value.id, k))])
      [] value.t = "dict" -> Dict([k \in DOMAIN value.d |-> enforce_yaml(h, value.d[k])])
      [] value.t = "list" ->
            List([i \in DOMAIN value.items |-> enforce_yaml(h, value.items[i])])
      [] value.t \in {"num", "str", "bool"} -> value
      [] value.t = "cplx" ->
            Dict([is_calculator_complex |-> Bool(TRUE),
                  real |-> Num(value.re),
                  imag |-> Num(value.im)])
      [] OTHER -> EmptyRepr

\* the value Qonfig.to_dict gives one key
ToDictValue(h, v, enforce_yaml_compatible) ==
    IF IsQonfig(v) THEN to_dict(h, v.id, enforce_yaml_compatible)
    ELSE IF ContainsQonfig(v)
    THEN List([i \in DOMAIN v.items |->
                  IF IsQonfig(v.items[i])
                  THEN to_dict(h, v.items[i].id, enforce_yaml_compatible)
                  ELSE v.items[i]])
    ELSE IF IsEmpty(v) THEN EmptyRepr
    ELSE IF enforce_yaml_compatible THEN enforce_yaml(h, v)
    ELSE v

\* Qonfig.to_dict
to_dict(h, n, enforce_yaml_compatible) ==
    Dict([k \in DOMAIN h[n].defaults \cup {"qonfig_name"} |->
            IF k \in DOMAIN h[n].defaults
            THEN ToDictValue(h, h[n].values[k], enforce_yaml_compatible)
            ELSE Str(QonfigName(h[n].cls))])

\* re.fullmatch(excluded, key) for some excluded, each a literal pattern
Excluded(excluded_keys, key) == key \in excluded_keys

\* series[label] = v of a pandas Series, a sequence of labelled entries
SeriesSet(series, label, v) ==
    IF \E i \in DOMAIN series : series[i].label = label
    THEN [i \in DOMAIN series |->
             IF series[i].label = label THEN [label |-> label, v |-> v] ELSE series[i]]
    ELSE Append(series, [label |-> label, v |-> v])

\* subseries.add_prefix(prefix)
AddPrefix(series, prefix) ==
    [i \in DOMAIN series |-> [label |-> prefix \o series[i].label, v |-> series[i].v]]

\* the loop over the elements of a list of Qonfigs in Qonfig.to_pd_series
SeriesItemsFrom(h, key, items, valid_check, excluded_keys, enforce_yaml_compatible, j, r) ==
    IF r.err # "none" \/ j > Len(items) THEN r
    ELSE LET sub == to_pd_series(h, items[j].id, valid_check, excluded_keys,
                                 enforce_yaml_compatible)
         IN SeriesItemsFrom(h, key, items, valid_check, excluded_keys,
               enforce_yaml_compatible, j + 1,
               IF sub.err # "none" THEN sub
               ELSE [r EXCEPT !.s = r.s \o AddPrefix(sub.s, IndexedKey(key, j - 1) \o "_")])

\* the loop over self.keys() in Qonfig.to_pd_series, from key number i on
SeriesFrom(h, n, valid_check, excluded_keys, enforce_yaml_compatible, i, r) ==
    IF r.err # "none" \/ i > Len(keys(h, n)) THEN r
    ELSE LET key == keys(h, n)[i]
             v == h[n].values[key]
             sub == to_pd_series(h, v.id, valid_check, excluded_keys,
                                 enforce_yaml_compatible)
             r1 == IF Excluded(excluded_keys, key) THEN r
                   ELSE IF IsQonfig(v)
                   THEN IF sub.err # "none" THEN sub
                        ELSE [r EXCEPT !.s = r.s \o AddPrefix(sub.s, key \o "_")]
                   ELSE IF v.t = "list" /\ \A j \in DOMAIN v.items : IsQonfig(v.items[j])
                   THEN SeriesItemsFrom(h, key, v.items, valid_check, excluded_keys,
                                        enforce_yaml_compatible, 1, r)
                   ELSE [r EXCEPT !.s = SeriesSet(r.s, key,
                            IF enforce_yaml_compatible THEN enforce_yaml(h, v) ELSE v)]
         IN SeriesFrom(h, n, valid_check, excluded_keys, enforce_yaml_compatible, i + 1, r1)

\* label is not excluded
Kept(excluded_keys, entry) == ~Excluded(excluded_keys, entry.label)

\* Qonfig.to_pd_series: the error raised, or the series
to_pd_series(h, n, valid_check, excluded_keys, enforce_yaml_compatible) ==
    IF ~is_valid(h, n) /\ valid_check
    THEN [err |-> "IncompleteQonfigError", s |-> <<>>]
    ELSE LET r == SeriesFrom(h, n, valid_check, excluded_keys, enforce_yaml_compatible, 1,
                     [err |-> "none",
                      s |-> <<[label |-> "qonfig_name", v |-> Str(QonfigName(h[n].cls))]>>])
         IN IF r.err # "none" THEN r
            ELSE [r EXCEPT !.s = SelectSeq(r.s, LAMBDA e : Kept(excluded_keys, e))]

(******************************* the program *******************************)
RECURSIVE ReachFrom(_, _)

\* The heap once the class bodies have run.
ClassHeap ==
    Build(Build(Machine(<<>>), "Simple", None, TRUE, MaxDepth),
          "Simple", None, TRUE, MaxDepth).h

\* The Qonfigs a value holds: itself, or the Qonfigs of a list.
NodesOf(v) ==
    IF IsQonfig(v) THEN {v.id}
    ELSE IF v.t = "list"
    THEN {v.items[i].id : i \in {j \in DOMAIN v.items : IsQonfig(v.items[j])}}
    ELSE {}

\* The Qonfigs held as values of node n.
Children(h, n) == UNION {NodesOf(h[n].values[k]) : k \in DOMAIN h[n].values}

\* The nodes reached from the set S through values: S and its descendants.
ReachFrom(h, S) ==
    LET T == S \cup UNION {Children(h, n) : n \in S}
    IN IF T = S THEN S ELSE ReachFrom(h, T)

Descendants(h, n) == ReachFrom(h, Children(h, n))

\* The objects a node refers to: its values, its defaults and its parent.
Referents(h, n) ==
    Children(h, n)
        \cup UNION {NodesOf(h[n].defaults[k]) : k \in DOMAIN h[n].defaults}
        \cup ({h[n].parent} \ {None})

RECURSIVE Live(_, _)
Live(h, S) ==
    LET T == S \cup UNION {Referents(h, n) : n \in S}
    IN IF T = S THEN S ELSE Live(h, T)

\* Python frees an object nothing refers to: the heap seen from the
\* caller's variables and the class bodies.
RECURSIVE Sweep(_, _, _)
Sweep(h, live, i) ==
    IF i = 0 THEN <<>>
    ELSE Append(Sweep(h, live, i - 1), IF i \in live THEN h[i] ELSE Free)

Collect(h, roots) ==
    LET live == Live(h, (roots \cup {DefaultSimple, DefaultElement}) \ {None})
        top == CHOOSE i \in live : \A j \in live : j <= i
    IN Sweep(h, live, top)

\* The values the caller writes, besides its own nodes.
SetValues == {Empty, Num(3)}

AllKeys == UNION {KeySet(c) : c \in Classes}

\* The classes the caller builds first, and those it builds later.
RootClasses == {"Simple", "NoProp", "Aware", "Top"}
LaterClasses == {"Simple", "NoProp", Unrelated}

\* The keys the caller writes, and the keys and classes it overwrites.  The
\* caller leaves super_key1 a node that declares key1, as the requirement of
\* class_aware reads it.
SetKeys == {"key1", "key2", "mid"}
\* The key under which the caller stores its second node.
NodeKeys == {"mid"}
OverwriteKeys == {"key1", "key2"}
OverwriteClasses == {"Simple", "Aware", "NoProp"}

\* The lists of excluded keys the caller passes to to_pd_series.
ExcludedKeys == {{}, {"key2"}}

\* The keys the caller reads: declared, undeclared and reserved ones.
GetKeys == {"key1", "key3", "name", "qonfig_name"}
\* config[key] and config.get(key)
GetMethods == {"__getitem__", "get"}

\* The nodes the caller can name: config, config[k], config[k][i], ...
Named(h, a, b) == ReachFrom(h, {a, b} \ {None})

Init ==
    \E c \in RootClasses :
        LET m == Build(Machine(ClassHeap), c, None, TRUE, MaxDepth)
        IN /\ heap = m.h
           /\ x = m.r.id
           /\ y = None
           /\ last = [op |-> "Qonfig", cls |-> c, err |-> m.err]
           /\ pre = ClassHeap
           /\ ops = 0

\* y = Qonfig(c)
QonfigCall ==
    \E c \in LaterClasses :
        LET m == Build(Machine(heap), c, None, TRUE, MaxDepth)
        IN /\ ops < MaxOps
           /\ y = None
           /\ m.err # "RecursionError"
           /\ y' = IF Ok(m) THEN m.r.id ELSE None
           /\ heap' = IF Ok(m) THEN Collect(m.h, {x, y'}) ELSE heap
           /\ last' = [op |-> "Qonfig", cls |-> c, err |-> m.err]
           /\ pre' = heap
           /\ ops' = ops + 1
           /\ x' = x

\* n[key] = value
SetItemCall ==
    \E n \in Named(heap, x, y), key \in SetKeys,
       value \in SetValues \cup {Ref(r) : r \in {y} \ {None}} :
        LET m == setitem(Machine(heap), n, key, value, MaxDepth)
        IN /\ ops < MaxOps
           /\ IsQonfig(value) => key \in NodeKeys
           /\ m.err # "RecursionError"
           /\ heap' = Collect(m.h, {x, y})
           /\ last' = [op |-> "setitem", n |-> n, key |-> key, value |-> value,
                       err |-> m.err]
           /\ pre' = heap
           /\ ops' = ops + 1
           /\ UNCHANGED <<x, y>>

\* x._propagate_overwrites(key, specific_class, value)
PropagateOverwritesCall ==
    \E n \in {x}, key \in OverwriteKeys, specific_class \in OverwriteClasses,
       value \in SetValues :
        LET m == propagate_overwrites(Machine(heap), n, key, specific_class, value,
                                      MaxDepth)
        IN /\ ops < MaxOps
           /\ m.err # "RecursionError"
           /\ heap' = Collect(m.h, {x, y})
           /\ last' = [op |-> "propagate_overwrites", n |-> n, key |-> key,
                       cls |-> specific_class, value |-> value, err |-> m.err]
           /\ pre' = heap
           /\ ops' = ops + 1
           /\ UNCHANGED <<x, y>>

\* IncompleteQonfigError.__init__: the exception object
IncompleteQonfigError(message, class_type, missing) ==
    [message |-> message, class_type |-> class_type, missing_values |-> missing]

\* the exception to_instance raises: the message alone is passed, and
\* class_type and missing_values keep their default, None
ToInstanceError ==
    IncompleteQonfigError("Incomplete Qonfig can not create a class", PyNone, PyNone)

\* the exception to_pd_series raises, the message alone being passed
ToPdSeriesError ==
    IncompleteQonfigError("Incomplete Qonfigs can not be exported to pd.Series", PyNone, PyNone)

\* n.to_instance(no_copy): from_qonfig keeps the config it receives, in y
ToInstanceCall ==
    \E n \in Named(heap, x, y), no_copy \in BOOLEAN :
        LET m == to_instance(Machine(heap), n, no_copy, MaxDepth)
        IN /\ ops < MaxOps
           /\ m.err # "RecursionError"
           /\ y' = IF Ok(m) THEN m.r.id ELSE y
           /\ heap' = Collect(m.h, {x, y'})
           /\ last' = [op |-> "to_instance", n |-> n, no_copy |-> no_copy,
                       recv |-> IF Ok(m) THEN m.r.id ELSE None, err |-> m.err,
                       exc |-> IF m.err = "IncompleteQonfigError" THEN ToInstanceError
                               ELSE PyNone]
           /\ pre' = heap
           /\ ops' = ops + 1
           /\ x' = x

\* n.to_pd_series(valid_check, excluded_keys)
ToPdSeriesCall ==
    \E n \in Named(heap, x, y), valid_check \in BOOLEAN, excluded_keys \in ExcludedKeys :
        LET r == to_pd_series(heap, n, valid_check, excluded_keys, TRUE)
        IN /\ ops < MaxOps
           /\ last' = [op |-> "to_pd_series", n |-> n, valid_check |-> valid_check,
                       excluded_keys |-> excluded_keys, series |-> r.s, err |-> r.err,
                       exc |-> IF r.err = "IncompleteQonfigError" THEN ToPdSeriesError
                               ELSE PyNone]
           /\ pre' = heap
           /\ ops' = ops + 1
           /\ UNCHANGED <<heap, x, y>>

\* y = Qonfig.from_dict(n.to_dict(enforce_yaml_compatible)); with
\* enforce_yaml_compatible the dict is the document of to_yaml and to_json
FromDictCall ==
    \E n \in Named(heap, x, y), enforce_yaml_compatible \in BOOLEAN :
        LET dct == to_dict(heap, n, enforce_yaml_compatible)
            m == from_dict(Machine(heap), dct, MaxDepth)
        IN /\ ops < MaxOps
           /\ m.err # "RecursionError"
           /\ y' = IF Ok(m) THEN m.r.id ELSE y
           /\ heap' = Collect(m.h, {x, y'})
           /\ last' = [op |-> "from_dict", n |-> n, dct |-> dct,
                       enforce |-> enforce_yaml_compatible,
                       recv |-> IF Ok(m) THEN m.r.id ELSE None, err |-> m.err]
           /\ pre' = heap
           /\ ops' = ops + 1
           /\ x' = x

\* y = copy.copy(n)
CopyCall ==
    \E n \in Named(heap, x, y) :
        LET m == CopyValue(Machine(heap), Ref(n), MaxDepth)
        IN /\ ops < MaxOps
           /\ m.err # "RecursionError"
           /\ y' = IF Ok(m) THEN m.r.id ELSE y
           /\ heap' = Collect(m.h, {x, y'})
           /\ last' = [op |-> "copy", n |-> n,
                       recv |-> IF Ok(m) THEN m.r.id ELSE None, err |-> m.err]
           /\ pre' = heap
           /\ ops' = ops + 1
           /\ x' = x

\* y = copy.deepcopy(n)
DeepCopyCall ==
    \E n \in Named(heap, x, y) :
        LET m == deepcopy(Machine(heap), n, MaxDepth)
        IN /\ ops < MaxOps
           /\ m.err # "RecursionError"
           /\ y' = IF Ok(m) THEN m.r.id ELSE y
           /\ heap' = Collect(m.h, {x, y'})
           /\ last' = [op |-> "deepcopy", n |-> n,
                       recv |-> IF Ok(m) THEN m.r.id ELSE None, err |-> m.err]
           /\ pre' = heap
           /\ ops' = ops + 1
           /\ x' = x

\* n[key] or n.get(key)
GetCall ==
    \E n \in {x, y} \ {None}, key \in GetKeys, method \in GetMethods :
        LET raises == IF method = "get" THEN GetRaises(heap, n, key)
                      ELSE GetItemRaises(heap, n, key)
        IN /\ ops < MaxOps
           /\ last' = [op |-> "get", method |-> method, n |-> n, key |-> key,
                       value |-> IF raises THEN Empty
                                 ELSE IF method = "get" THEN get(heap, n, key)
                                 ELSE getitem(heap, n, key),
                       err |-> IF raises THEN "KeyError" ELSE "none"]
           /\ pre' = heap
           /\ ops' = ops + 1
           /\ UNCHANGED <<heap, x, y>>

Next ==
    \/ QonfigCall
    \/ GetCall
    \/ CopyCall
    \/ DeepCopyCall
    \/ SetItemCall
    \/ PropagateOverwritesCall
    \/ ToInstanceCall
    \/ ToPdSeriesCall
    \/ FromDictCall

Spec == Init /\ [][Next]_vars

(************************* the calls that write ****************************)
\* The keys under which the caller stores its own nodes, and what it
\* stores: a node it holds in a variable, or a list of one.
StoreKeys == {"key1", "lst"}
NodeValues(a, b) ==
    {Ref(r) : r \in {a, b} \ {None}} \cup {List(<<Ref(r)>>) : r \in {a, b} \ {None}}

\* the receives_values setter
SetReceivesValues(h, n, value) == [h EXCEPT ![n].rv = value]

\* n.receives_values = value
ReceivesValuesCall ==
    \E n \in Named(heap, x, y), value \in BOOLEAN :
        /\ ops < MaxOps
        /\ heap' = SetReceivesValues(heap, n, value)
        /\ last' = [op |-> "receives_values", n |-> n, value |-> value, err |-> "none"]
        /\ pre' = heap
        /\ ops' = ops + 1
        /\ UNCHANGED <<x, y>>

\* A node of the value, or one below it, declares the key, or the value is
\* a list that holds n or a node above n: a propagation of the value writes
\* it into a node the value holds.
Recurs(h, n, key, value) ==
    \/ \E c \in ReachFrom(h, NodesOf(value)) : HasKey(h, c, key)
    \/ value.t = "list" /\ n \in ReachFrom(h, NodesOf(value))

\* n[key] = value, the value a node of the caller or a list of one.  The
\* caller stores a value the propagation would write into itself only under
\* a key n declares and after turning receives_values off: any other such
\* call ends in RecursionError.
SetNodesCall ==
    \E n \in Named(heap, x, y), key \in StoreKeys, value \in NodeValues(x, y) :
        LET m == setitem(Machine(heap), n, key, value, MaxDepth)
        IN /\ ops < MaxOps
           /\ Recurs(heap, n, key, value) => HasKey(heap, n, key) /\ ~heap[n].rv
           /\ m.err # "RecursionError"
           /\ heap' = Collect(m.h, {x, y})
           /\ last' = [op |-> "setitem", n |-> n, key |-> key, value |-> value,
                       err |-> m.err]
           /\ pre' = heap
           /\ ops' = ops + 1
           /\ UNCHANGED <<x, y>>

NextWrites ==
    \/ QonfigCall
    \/ SetItemCall
    \/ ReceivesValuesCall
    \/ SetNodesCall

SpecWrites == Init /\ [][NextWrites]_vars

(******************** the flag and the calls that copy *********************)
\* A caller that turns receives_values off or on and copies.
NextFlags ==
    \/ QonfigCall
    \/ ReceivesValuesCall
    \/ CopyCall
    \/ DeepCopyCall
    \/ SetItemCall

SpecFlags == Init /\ [][NextFlags]_vars

(************************ two builds of one class **************************)
\* The classes the caller builds twice: a default that is a Qonfig, defaults
\* given as dicts of nested Qonfigs, and a default that is a list of Qonfigs.
BuildClasses == {"Aware", "Top", "Listed"}

InitBuilds ==
    \E c \in BuildClasses :
        LET m == Build(Machine(ClassHeap), c, None, TRUE, MaxDepth)
        IN /\ heap = m.h
           /\ x = m.r.id
           /\ y = None
           /\ last = [op |-> "Qonfig", cls |-> c, err |-> m.err]
           /\ pre = ClassHeap
           /\ ops = 0

\* y = Qonfig(c), c the class of x
BuildCall ==
    LET m == Build(Machine(heap), heap[x].cls, None, TRUE, MaxDepth)
    IN /\ ops < MaxOps
       /\ y = None
       /\ m.err # "RecursionError"
       /\ y' = IF Ok(m) THEN m.r.id ELSE None
       /\ heap' = IF Ok(m) THEN Collect(m.h, {x, y'}) ELSE heap
       /\ last' = [op |-> "Qonfig", cls |-> heap[x].cls, err |-> m.err]
       /\ pre' = heap
       /\ ops' = ops + 1
       /\ x' = x

NextBuilds ==
    \/ BuildCall
    \/ SetItemCall

SpecBuilds == InitBuilds /\ [][NextBuilds]_vars

(******************************* properties ********************************)
\* The last call was n[key] = value and it returned.
SetReturned == last.op = "setitem" /\ last.err = "none"

\* The nodes reached from n through Qonfig values and list elements whose
\* receives_values is true, n included when it is receptive itself.
RECURSIVE ReceptiveFrom(_, _)
ReceptiveFrom(h, S) ==
    LET T == S \cup {c \in UNION {Children(h, n) : n \in S} : receives_values(h, c)}
    IN IF T = S THEN S ELSE ReceptiveFrom(h, T)

ReceptiveReach(h, n) == IF receives_values(h, n) THEN ReceptiveFrom(h, {n}) ELSE {}

\* C1: after P[k] = v on a receptive node P that declares k, every node
\* that declares k and is reached from P through receptive nodes (nested or
\* in lists, at any depth, through nodes that do not declare k as well)
\* holds a value equal to v under k.
C1_Propagation ==
    (SetReturned /\ HasKey(pre, last.n, last.key) /\ receives_values(pre, last.n)) =>
        \A c \in ReceptiveReach(heap, last.n) :
            HasKey(heap, c, last.key) =>
                PyEq(heap, get(heap, c, last.key), pre, last.value)

\* C1 happens: Top['key1'] = Empty reached the Simple node two levels down,
\* below the Aware node that does not declare key1, and the SubSimple node in
\* the list.
C1_Witness ==
    /\ SetReturned /\ last.key = "key1" /\ last.value = Empty
    /\ heap[last.n].cls = "Top"
    /\ \E c \in ReceptiveReach(heap, last.n) :
            /\ heap[c].cls = "Simple"
            /\ c \notin Children(heap, last.n)
            /\ pre[c].values["key1"] = Num(3)
            /\ heap[c].values["key1"] = Empty
    /\ \E i \in DOMAIN heap[last.n].values["lst"].items :
            LET e == heap[last.n].values["lst"].items[i].id
            IN heap[e].cls = "SubSimple" /\ heap[e].values["key1"] = Empty

\* The keys under which a node of S holds node c, directly or in a list.
HolderKeys(h, S, c) ==
    {k \in AllKeys : \E q \in S : HasKey(h, q, k) /\ c \in NodesOf(h[q].values[k])}

\* Object c is still held after the call.
Alive(h, c) == c \in DOMAIN h /\ ~IsFree(h, c)

\* C2: P[k] = v leaves every value of a never_receives_values node C below
\* P as it was, C held under a key or in a list, for every v and every k
\* but the key that holds C: C[k'] equals what it was before, for every key
\* k' of C.
C2_OptOut ==
    SetReturned =>
        \A c \in Descendants(pre, last.n) :
            (/\ NeverReceivesValues(pre[c].cls)
             /\ last.key \notin HolderKeys(pre, ReachFrom(pre, {last.n}), c)
             /\ Alive(heap, c))
                => \A k \in DOMAIN pre[c].values :
                       PyEq(heap, get(heap, c, k), pre, get(pre, c, k))

\* C3: from_dict(n.to_dict()) == n for every node the caller can name, after
\* any writes, through the plain dict and through the yaml-compatible one.
C3_RoundTrip ==
    last.op = "from_dict" =>
        /\ last.err = "none"
        /\ PyEq(heap, Ref(last.recv), pre, Ref(last.n))

\* Node c holds Empty under one of its keys.
HoldsEmpty(h, c) == \E k \in DOMAIN h[c].values : IsEmpty(h[c].values[k])

RECURSIVE OpenFrom(_, _)
OpenFrom(h, S) ==
    LET T == S \cup UNION {Children(h, n) : n \in {q \in S : ~NeverReceivesValues(h[q].cls)}}
    IN IF T = S THEN S ELSE OpenFrom(h, T)

RequirementSet(c) == {RequirementKeys(c)[i] : i \in DOMAIN RequirementKeys(c)}

\* violated_requirements[k] is the doc of requirement k.
ReportsDoc(h, n, k) ==
    /\ k \in DOMAIN violated_requirements(h, n).d
    /\ violated_requirements(h, n).d[k] = Str(RequirementDoc(h[n].cls, k))

Checked ==
    \/ last.op = "to_instance"
    \/ last.op = "to_pd_series" /\ last.valid_check

\* C6: to_instance() and to_pd_series(valid_check=True) raise
\* IncompleteQonfigError exactly when the node is not valid, and then no
\* value of the tree has changed.
C6_Incomplete ==
    Checked =>
        /\ last.err = "IncompleteQonfigError" <=> ~is_valid(pre, last.n)
        /\ last.err # "none" => heap = pre

\* The last call was n[key] = value with a key that n does not declare.
SetUndeclared == last.op = "setitem" /\ ~HasKey(pre, last.n, last.key)

\* C7 as stated: n[key] = value with a key that n does not declare raises
\* KeyError.
C7_KeyNotFound == SetUndeclared => last.err = "KeyError"

\* C7: n[key] = value with a key that n does not declare raises nothing,
\* whatever node n is, and leaves n with the keys and values it had.
C7_NoKeyError ==
    SetUndeclared =>
        /\ last.err = "none"
        /\ Alive(heap, last.n)
        /\ heap[last.n].values = pre[last.n].values

\* C7 happens: a nested class_aware node was written under key1, which it
\* does not declare; the call returned and wrote below the node.
C7_Witness ==
    /\ SetUndeclared /\ last.key = "key1" /\ last.err = "none"
    /\ last.n \in Descendants(heap, x)
    /\ heap[last.n].cls = "Aware"
    /\ heap # pre

\* The last call was R[k] = v on a node R the caller holds in a variable,
\* k not declared by R.
SetUndeclaredRoot == SetUndeclared /\ last.n \in {x, y}

\* C8 as stated: R[k] = v raises nothing, leaves the values of R as they
\* were and gives v to every descendant that receives values and declares k.
C8_RootSet ==
    SetUndeclaredRoot =>
        /\ last.err = "none"
        /\ heap[last.n].values = pre[last.n].values
        /\ \A c \in Descendants(heap, last.n) :
               (receives_values(heap, c) /\ HasKey(heap, c, last.key)) =>
                   PyEq(heap, get(heap, c, last.key), pre, last.value)

\* C8: R[k] = v raises nothing, leaves the values of R as they were and
\* gives v to every node that declares k and is reached from R through nodes
\* that receive values.
C8_RootSetReached ==
    SetUndeclaredRoot =>
        /\ last.err = "none"
        /\ heap[last.n].values = pre[last.n].values
        /\ \A c \in ReceptiveFrom(heap, {last.n}) \ {last.n} :
               HasKey(heap, c, last.key) =>
                   PyEq(heap, get(heap, c, last.key), pre, last.value)

\* C8 happens: config['key1'] = 3 on a class_aware root gave 3 to
\* super_key1['key1'], and the root, its key2 supplied before, became valid.
C8_Witness ==
    /\ SetUndeclaredRoot /\ last.n = x /\ last.key = "key1" /\ last.value = Num(3)
    /\ heap[x].cls = "Aware"
    /\ get(pre, get(pre, x, "super_key1").id, "key1") = Num(1)
    /\ get(heap, get(heap, x, "super_key1").id, "key1") = Num(3)
    /\ ~is_valid(pre, x)
    /\ is_valid(heap, x)

\* C9: _propagate_overwrites(k, T, v) leaves every descendant whose class is
\* not T or a subclass of T with the values it had, below a node of class T
\* as anywhere else, and changes no key but k.
C9_OverwriteFrame ==
    (last.op = "propagate_overwrites" /\ last.err = "none") =>
        \A c \in Descendants(pre, last.n) :
            Alive(heap, c) =>
                \A k \in DOMAIN pre[c].values :
                    (k # last.key \/ ~IsSubclass(pre[c].cls, last.cls)) =>
                        heap[c].values[k] = pre[c].values[k]

\* C10: to_instance on a valid node hands from_qonfig the node itself
\* exactly when no_copy or _qonfig_never_receives_values is true; otherwise
\* another object that equals the node and shares no node with it, so that
\* no write below the one reaches the other.
C10_ToInstance ==
    (last.op = "to_instance" /\ last.err = "none") =>
        IF last.no_copy \/ NeverReceivesValues(pre[last.n].cls)
        THEN last.recv = last.n
        ELSE /\ last.recv # last.n
             /\ PyEq(heap, Ref(last.recv), pre, Ref(last.n))
             /\ ReachFrom(heap, {last.recv}) \cap ReachFrom(pre, {last.n}) = {}

\* C11: reading a key that the node does not declare raises KeyError and
\* changes nothing, except that 'name' and 'qonfig_name' always read as the
\* qualified name of the node, whether or not the class declares them; so for
\* n[key] as for n.get(key).
C11_Get ==
    last.op = "get" =>
        /\ heap = pre
        /\ IF last.key \in {"name", "qonfig_name"}
           THEN last.err = "none" /\ last.value = Str(QonfigName(heap[last.n].cls))
           ELSE ~HasKey(heap, last.n, last.key) => last.err = "KeyError"

\* The objects of heap h.
Objects(h) == {c \in DOMAIN h : ~IsFree(h, c)}

\* C12: every node's keys() and the keys of its stored values are the keys
\* its class declares, whatever calls were made.
C12_Keys ==
    \A c \in Objects(heap) :
        /\ {keys(heap, c)[i] : i \in DOMAIN keys(heap, c)} = KeySet(heap[c].cls)
        /\ DOMAIN heap[c].defaults = KeySet(heap[c].cls)
        /\ DOMAIN heap[c].values = KeySet(heap[c].cls)

\* C12 happens: a deep copy, made as the second call, created new nodes,
\* in a heap where some node below config no longer holds its defaults.
C12_Witness ==
    /\ last.op = "deepcopy" /\ last.err = "none"
    /\ \E c \in Descendants(heap, x) : heap[c].values # heap[c].defaults
    /\ Cardinality(Objects(heap)) > Cardinality(Objects(pre))
    /\ ops = MaxOps

\* C13: no node is reached from itself through the nodes and lists of nodes
\* it holds, whatever was written, a node or a list holding the node itself
\* or one above it included.
C13_Tree == \A c \in Objects(heap) : c \notin Descendants(heap, c)

\* The last call n[key] = value stored, under a key n declares, a value that
\* holds nodes of the caller, none of them n or above n.
StoredNodes ==
    /\ SetReturned
    /\ HasKey(pre, last.n, last.key)
    /\ NodesOf(last.value) # {}
    /\ last.n \notin ReachFrom(pre, NodesOf(last.value))

\* C14: after n[key] = value, the value a node or a list holding nodes, no
\* node held under key is a node of the caller's value, and the caller's
\* nodes and all nodes below them are as they were before the call.
C14_ByValue ==
    StoredNodes =>
        /\ NodesOf(heap[last.n].values[last.key]) \cap NodesOf(last.value) = {}
        /\ \A c \in ReachFrom(pre, NodesOf(last.value)) : heap[c] = pre[c]

\* The series of the last call, had nothing been excluded.
FullSeries == to_pd_series(heap, last.n, last.valid_check, {}, TRUE)

\* C15: the series of to_pd_series(excluded_keys = E) is the series without
\* exclusion less the entries whose flattened name is a key of E: an entry
\* of a nested node or of a list element, named super_key1_key2 or
\* lst_0_key2, stays when E = ["key2"].
C15_Excluded ==
    (last.op = "to_pd_series" /\ last.err = "none" /\ FullSeries.err = "none") =>
        last.series = SelectSeq(FullSeries.s, LAMBDA e : e.label \notin last.excluded_keys)

\* The last call was copy.deepcopy(n), it returned, and the caller still
\* holds n.
DeepCopyReturned == last.op = "deepcopy" /\ last.err = "none" /\ last.n \in Objects(heap)

\* n[key] = value is written in the tree of `written`, and every node of
\* the tree of `kept` is after the step as it was before.
SetLeaves(written, kept) ==
    (last'.op = "setitem" /\ last'.n \in ReachFrom(heap, {written})) =>
        \A c \in ReachFrom(heap, {kept}) : c \in DOMAIN heap' /\ heap'[c] = heap[c]

\* C16: copy.deepcopy(n) returns a node equal to n, of the class of n, with
\* no parent, that is made of new nodes only; a set that follows in the tree
\* of the copy leaves every node of the tree of n as it was, and a set in the
\* tree of n leaves every node of the copy as it was.
C16_DeepCopy ==
    /\ [](DeepCopyReturned =>
            /\ PyEq(heap, Ref(last.recv), heap, Ref(last.n))
            /\ heap[last.recv].cls = heap[last.n].cls
            /\ heap[last.recv].parent = None
            /\ ReachFrom(heap, {last.recv}) \cap Objects(pre) = {})
    /\ [][DeepCopyReturned => SetLeaves(last.recv, last.n) /\ SetLeaves(last.n, last.recv)]_vars

\* The keys missing_values is to report for n: those whose value is Empty
\* and those whose value is an incomplete node.
MissingKeys(h, n) ==
    {k \in DOMAIN h[n].values :
        \/ IsEmpty(h[n].values[k])
        \/ IsQonfig(h[n].values[k]) /\ ~is_complete(h, h[n].values[k].id)}

\* The dict missing_values is to return for n: k -> k for an Empty value and
\* k -> child.missing_values for an incomplete node.
MissingDict(h, n) ==
    Dict([k \in MissingKeys(h, n) |->
            IF IsQonfig(h[n].values[k]) THEN missing_values(h, h[n].values[k].id)
            ELSE Str(k)])

\* n holds no list.
NoLists(h, n) == \A k \in DOMAIN h[n].values : IsQonfig(h[n].values[k]) \/ h[n].values[k].t # "list"

\* The last call was n[key] = Empty, key declared by n, and it returned.
SetEmpty == SetReturned /\ IsEmpty(last.value) /\ HasKey(heap, last.n, last.key)

C18_Payload ==
    (last.op \in {"to_instance", "to_pd_series"} /\ last.err = "IncompleteQonfigError") =>
        last.exc.missing_values = missing_values(pre, last.n)

\* C19: n[key] = value on a node n that declares key and whose
\* receives_values is False, by its setter or by the never_receives_values of
\* its class, changes no value of a node below n.
C19_StoresOnly ==
    (SetReturned /\ HasKey(pre, last.n, last.key) /\ ~receives_values(pre, last.n)) =>
        \A c \in Descendants(pre, last.n) \cap Objects(heap) :
            heap[c].values = pre[c].values

\* C20: n[key] = value changes no value of a node c below n whose
\* receives_values is False, nor of any node below c, c being held under a
\* key or as an element of a list.
C20_NotThrough ==
    SetReturned =>
        \A c \in Descendants(pre, last.n) :
            ~receives_values(pre, c) =>
                \A q \in ReachFrom(pre, {c}) :
                    Alive(heap, q) => heap[q].values = pre[q].values

\* C21: after P._propagate_overwrites(k, T, v), every node below P that is
\* reached through receptive nodes, whose class is T or a subclass of T and
\* that declares k holds v, a node below a node of another class included.
C21_Overwrites ==
    (last.op = "propagate_overwrites" /\ last.err = "none") =>
        \A c \in ReceptiveFrom(heap, {last.n}) \ {last.n} :
            (IsSubclass(heap[c].cls, last.cls) /\ HasKey(heap, c, last.key)) =>
                PyEq(heap, get(heap, c, last.key), pre, last.value)

\* C22: n[key] = value leaves the values of every node that is neither n
\* nor below n as they were: those of the parent of n, of the nodes above it,
\* and of the other nodes they hold.
C22_Downward ==
    SetReturned =>
        \A c \in Objects(pre) \ ReachFrom(pre, {last.n}) :
            Alive(heap, c) => heap[c].values = pre[c].values

\* C22 happens: n[key] = value on a node n held by another changed a node
\* below n, and a node beside n that declares the key kept another value.
C22_Witness ==
    /\ SetReturned
    /\ heap[last.n].parent # None
    /\ HasKey(heap, last.n, last.key)
    /\ \E c \in Descendants(pre, last.n) : Alive(heap, c) /\ heap[c].values # pre[c].values
    /\ \E c \in Children(heap, heap[last.n].parent) \ {last.n} :
            HasKey(heap, c, last.key) /\ heap[c].values[last.key] # last.value

\* The nodes the caller has built and no call has touched since: the last
\* call was Qonfig(cls), and before it at most the first Qonfig(cls).
JustBuilt ==
    IF last.op # "Qonfig" \/ last.err # "none" THEN {}
    ELSE IF ops = 0 THEN {x}
    ELSE IF ops = 1 THEN {x, y}
    ELSE {y}

\* C23: right after Qonfig(cls), cls not setting never_receives_values,
\* every node below the root that is reached through receptive nodes holds,
\* under each key it declares with the root, the value of the root; right
\* after Qonfig(cls), cls setting never_receives_values, every node the root
\* holds has the defaults of its class.
C23_Built ==
    \A r \in JustBuilt :
        IF ~NeverReceivesValues(heap[r].cls)
        THEN \A c \in ReceptiveFrom(heap, {r}) \ {r} :
                \A k \in DOMAIN heap[c].values \cap DOMAIN heap[r].values :
                    PyEq(heap, heap[c].values[k], heap, heap[r].values[k])
        ELSE \A c \in Children(heap, r) :
                \A k \in DOMAIN heap[c].values :
                    heap[c].values[k] = ClassDefault(heap[c].cls, k)

\* C23 happens: the root built first holds Empty under key2 by default and
\* so does the node it holds, whose class declares another default, and the
\* root built next, of a never_receives_values class, holds a node with the
\* defaults of its class.
C23_Witness ==
    /\ JustBuilt = {x, y}
    /\ ~NeverReceivesValues(heap[x].cls)
    /\ \E c \in Children(heap, x) :
            /\ receives_values(heap, c)
            /\ ClassDefault(heap[c].cls, "key2") # Empty
            /\ heap[x].values["key2"] = Empty
            /\ heap[c].values["key2"] = Empty
    /\ NeverReceivesValues(heap[y].cls)
    /\ Children(heap, y) # {}

\* C24: every call returns within the nesting the interpreter allows; of
\* the calls the claim names, n.root returns for every node n the caller
\* can name, whatever was written before, a list holding the written node
\* itself included.
C24_Terminates ==
    \A n \in Named(heap, x, y) : root(heap, n, MaxDepth).err # "RecursionError"

\* Node a, of a class that does not set never_receives_values, holds under
\* key k a never_receives_values node below which a value is Empty.
HoldsOptedOutEmpty(h, a, k) ==
    /\ ~NeverReceivesValues(h[a].cls)
    /\ IsQonfig(h[a].values[k])
    /\ NeverReceivesValues(h[h[a].values[k].id].cls)
    /\ \E q \in ReachFrom(h, {h[a].values[k].id}) : HoldsEmpty(h, q)

\* C25: a never_receives_values node is complete whatever it holds, and a
\* node that holds it under a key is incomplete, and names that key in its
\* missing_values, when a value at or below the never_receives_values node
\* is Empty.
C25_Inspected ==
    \A n \in Named(heap, x, y) :
        /\ NeverReceivesValues(heap[n].cls) => is_complete(heap, n)
        /\ \A k \in DOMAIN heap[n].values :
                HoldsOptedOutEmpty(heap, n, k) =>
                    /\ ~is_complete(heap, n)
                    /\ k \in DOMAIN missing_values(heap, n).d

\* C26: n[key] = value leaves the defaults of every node equal to what they
\* were, the values inside a nested default node included.
C26_Defaults ==
    SetReturned =>
        \A c \in Objects(pre) :
            Alive(heap, c) =>
                /\ DOMAIN heap[c].defaults = DOMAIN pre[c].defaults
                /\ \A k \in DOMAIN pre[c].defaults :
                        PyEq(heap, heap[c].defaults[k], pre, pre[c].defaults[k])

\* The last call was copy.copy(n), it returned, and the caller still holds
\* n.
CopyReturned == last.op = "copy" /\ last.err = "none" /\ last.n \in Objects(heap)

\* C27: copy.copy(n) returns a node of the class of n, with the parent of n,
\* that equals n and is made of new nodes only, the nodes it holds under
\* keys and in lists included; a set that follows in the tree of the copy
\* leaves every node of the tree of n as it was.
C27_Copy ==
    /\ [](CopyReturned =>
            /\ heap[last.recv].cls = heap[last.n].cls
            /\ heap[last.recv].parent = heap[last.n].parent
            /\ PyEq(heap, Ref(last.recv), heap, Ref(last.n))
            /\ ReachFrom(heap, {last.recv}) \cap Objects(pre) = {})
    /\ [][CopyReturned => SetLeaves(last.recv, last.n)]_vars

\* C28: for every node the caller can name, missing_values is the empty
\* dict exactly when is_complete is True, a node that holds a list of
\* complete nodes included.
C28_MissingIffIncomplete ==
    \A n \in Named(heap, x, y) :
        (missing_values(heap, n) = Dict(NoKeys)) <=> is_complete(heap, n)

\* C29: every node held by a node p the caller can name, as a value or as an
\* element of a list, has p for parent, so that its root is the root of p.
C29_ParentOfStored ==
    \A p \in Named(heap, x, y) :
        \A c \in Children(heap, p) :
            /\ heap[c].parent = p
            /\ root(heap, c, MaxDepth) = root(heap, p, MaxDepth)

\* The nodes at the same position of two values, below a key or at an index
\* of a list, hold the same locally set receives_values flag.
RECURSIVE SameFlags(_, _, _)
SameFlags(h, a, b) ==
    IF IsQonfig(a) /\ IsQonfig(b)
    THEN /\ h[a.id].rv = h[b.id].rv
         /\ \A k \in DOMAIN h[a.id].values \cap DOMAIN h[b.id].values :
                SameFlags(h, h[a.id].values[k], h[b.id].values[k])
    ELSE IF a.t = "list" /\ b.t = "list"
    THEN \A i \in DOMAIN a.items \cap DOMAIN b.items :
            SameFlags(h, a.items[i], b.items[i])
    ELSE TRUE

\* C30: the node copy.copy(n) or copy.deepcopy(n) returns, and every node
\* below it, holds the receives_values flag of the node at the same position
\* of n: a node turned non-receptive is non-receptive in the copy.
C30_FlagsCopied ==
    (CopyReturned \/ DeepCopyReturned) =>
        SameFlags(heap, Ref(last.recv), Ref(last.n))

\* The last call n[key] = value wrote below one of the caller's two built
\* nodes: the pairs of that node and the other one.
WrittenAndOther ==
    IF ~SetReturned THEN {}
    ELSE {p \in ({x, y} \ {None}) \X ({x, y} \ {None}) :
            p[1] # p[2] /\ last.n \in ReachFrom(pre, {p[1]})}

\* Qonfig(cls) before any other call
FirstBuild(cls) == Build(Machine(ClassHeap), cls, None, TRUE, MaxDepth)

\* C31: the Qonfigs the classes declare as defaults stay as the class bodies
\* created them; after n[key] = value below one of two nodes built from one
\* class, every node of the other holds the values it held; and a node built
\* later equals the node a first build returns.
C31_BuildsIndependent ==
    /\ heap[DefaultSimple] = ClassHeap[DefaultSimple]
    /\ heap[DefaultElement] = ClassHeap[DefaultElement]
    /\ \A p \in WrittenAndOther :
            \A c \in ReachFrom(pre, {p[2]}) : heap[c].values = pre[c].values
    /\ (last.op = "Qonfig" /\ last.err = "none" /\ y # None) =>
            PyEq(heap, Ref(y), FirstBuild(last.cls).h, Ref(FirstBuild(last.cls).r.id))

\* The last call x[key] = value wrote a plain value under a key that x and
\* the caller's second node y both declare, y receptive, and x declares the
\* key mid that holds a node.
SetBeforeStore ==
    /\ SetReturned
    /\ last.n = x
    /\ ~IsQonfig(last.value)
    /\ y \in Objects(pre)
    /\ HasKey(pre, x, last.key) /\ HasKey(pre, y, last.key)
    /\ HasKey(pre, x, "mid")
    /\ receives_values(pre, y)

\* x['mid'] = y after the last call, and the same two calls the other way
\* round: x['mid'] = y first and then the last call
StoreAfter == setitem(Machine(heap), x, "mid", Ref(y), MaxDepth)
StoreBefore ==
    setitem(setitem(Machine(pre), x, "mid", Ref(y), MaxDepth),
            x, last.key, last.value, MaxDepth)

\* C32: x[key] = value followed by x['mid'] = y leaves x equal to what
\* x['mid'] = y followed by x[key] = value leaves, for a key that x and the
\* receptive node y both declare.
C32_OrderFree ==
    SetBeforeStore => PyEq(StoreAfter.h, Ref(x), StoreBefore.h, Ref(x))

====
